---- MODULE Spec2Model ----
(***************************************************************************)
(* Two fragments of the aeon toolkit.                                      *)
(*                                                                         *)
(*  1. aeon/forecasting/online_learning/__init__.py: the statements the    *)
(*     interpreter runs when the package is imported, and the namespace    *)
(*     they build.                                                         *)
(*  2. test_MultiRocketMultivariate.py: the statements of                  *)
(*     test_multirocket_multivariate_on_basic_motions, one action per      *)
(*     statement, with the record of every call it makes.                  *)
(*                                                                         *)
(* Arrays are abstracted to what the test reads of them: the number of     *)
(* cases of a collection, the shape of a transformed matrix, the label of  *)
(* each case.  The submodules, the data loader and the MultiRocket         *)
(* transform are not part of the fragment; what the model assumes of them  *)
(* is kept in definitions of their own.                                    *)
(***************************************************************************)
EXTENDS Integers, Sequences, FiniteSets, TLC

VARIABLES
    \* ---- package initializer ----
    submodules,     \* the names each submodule defines (its module dict)
    ipc,            \* next statement of __init__.py
    namespace,      \* the package's namespace: a set of bindings
    __all__,        \* the list bound to __all__, <<>> before line 8 runs
    \* ---- test ----
    lib,            \* "documented": the libraries behave as documented;
                    \* "arbitrary": a call may raise or return any shape
    dataset,        \* the basic-motions files: cases and labels per split
    pc,             \* next statement of the test
    failedAt,       \* the statement that raised, "" while none has
    log,            \* every call made so far, in order
    X_training, Y_training, X_test, Y_test,
    multirocket, classifier,
    X_training_transform, X_test_transform,
    predictions, accuracy

importVars == <<submodules, ipc, namespace, __all__>>
testVars == <<lib, dataset, pc, failedAt, log, X_training, Y_training, X_test,
              Y_test, multirocket, classifier, X_training_transform,
              X_test_transform, predictions, accuracy>>
vars == <<submodules, ipc, namespace, __all__, lib, dataset, pc, failedAt, log,
          X_training, Y_training, X_test, Y_test, multirocket, classifier,
          X_training_transform, X_test_transform, predictions, accuracy>>

\* ------------------------------------------------------------------ bounds

\* Most cases a split of the dataset holds.
MaxCases == 3
\* How many names, besides the exported classes, a submodule may define.
MaxExtra == 3

Range(s) == {s[i] : i \in 1..Len(s)}

\* ------------------------------------------------- the package initializer

OnlineEnsembleModule == "_online_ensemble"
WeightedEnsemblerModule == "_prediction_weighted_ensembler"

\* Names a submodule may define besides the classes the package exports
\* (helpers, base classes, its own imports).
ExtraPool == <<"HedgeExpertEnsemble", "_PredictionWeightedEnsembler",
               "EnsembleForecaster", "np", "nnls">>
ExtraNames == {ExtraPool[i] : i \in 1..MaxExtra}

\* What the two submodules are known to define: the classes the initializer
\* takes from each.
SubmoduleDefines(m) ==
    IF m = OnlineEnsembleModule
    THEN {"OnlineEnsembleForecaster"}
    ELSE {"NNLSEnsemble", "NormalHedgeEnsemble"}

\* lines 8-12 with one class left out of the list
ExportListMissing == <<"NormalHedgeEnsemble", "OnlineEnsembleForecaster">>
\* lines 8-12: the list assigned to __all__
ExportList == <<"NormalHedgeEnsemble", "NNLSEnsemble", "OnlineEnsembleForecaster">>

Binding(n, k, m) == [name |-> n, kind |-> k, from |-> m]

\* A name is bound to one object at a time: binding it again replaces it.
Bind(ns, b) == {x \in ns : x.name # b.name} \cup {b}

RECURSIVE BindAll(_, _, _)
BindAll(ns, names, m) ==
    IF names = <<>> THEN ns
    ELSE BindAll(Bind(ns, Binding(Head(names), "from", m)), Tail(names), m)

\* `from <package>.<m> import <names>`: the submodule is imported and becomes
\* an attribute of the package; then each name is looked up in it, in order,
\* and bound in the importing namespace.  A name the submodule lacks raises
\* ImportError and ends the import of the package.
FromImport(m, names, next) ==
    IF Range(names) \subseteq submodules[m]
    THEN /\ namespace' = BindAll(Bind(namespace, Binding(m, "submodule", "")),
                                 names, m)
         /\ ipc' = next
    ELSE /\ namespace' = Bind(namespace, Binding(m, "submodule", ""))
         /\ ipc' = "ImportError"

\* line 4: the module docstring
Docstring ==
    /\ ipc = "docstring"
    /\ namespace' = Bind(namespace, Binding("__doc__", "assign", ""))
    /\ ipc' = "author"
    /\ UNCHANGED <<submodules, __all__, testVars>>

\* line 6: __author__ = ["William Zheng"]
AssignAuthor ==
    /\ ipc = "author"
    /\ namespace' = Bind(namespace, Binding("__author__", "assign", ""))
    /\ ipc' = "all"
    /\ UNCHANGED <<submodules, __all__, testVars>>

\* lines 8-12: __all__ = [...]
AssignAll ==
    /\ ipc = "all"
    /\ __all__' = ExportList
    /\ namespace' = Bind(namespace, Binding("__all__", "assign", ""))
    /\ ipc' = "import_online"
    /\ UNCHANGED <<submodules, testVars>>

\* line 14
ImportOnlineEnsemble ==
    /\ ipc = "import_online"
    /\ FromImport(OnlineEnsembleModule, <<"OnlineEnsembleForecaster">>,
                  "import_weighted")
    /\ UNCHANGED <<submodules, __all__, testVars>>

\* lines 15-18
ImportWeightedEnsemblers ==
    /\ ipc = "import_weighted"
    /\ FromImport(WeightedEnsemblerModule, <<"NNLSEnsemble", "NormalHedgeEnsemble">>,
                  "imported")
    /\ UNCHANGED <<submodules, __all__, testVars>>

\* The names the initializer's from-imports have bound.
Imported == {b.name : b \in {x \in namespace : x.kind = "from"}}

SourceOf(n) == {b.from : b \in {x \in namespace : x.name = n /\ x.kind = "from"}}

\* ------------------------------------------ the libraries the test calls

\* Class labels of the dataset (two of them suffice to tell a right
\* prediction from a wrong one).
Classes == {"standing", "running"}

\* One split of the dataset as stored: n cases and the label of each.
Splits == UNION { { [n |-> k, y |-> f] : f \in [1..k -> Classes] } : k \in 1..MaxCases }

\* load_basic_motions(split=..., return_X_y=True): the collection (its number
\* of cases is all the test reads of it) and the labels.
load_basic_motions(split) == dataset[split]

\* The transform's default kernel budget, and the width the test expects.
DefaultNumKernels == 6250
ExpectedFeatures == 49728

\* The width the test's comment derives: "nearest multiple of 4*84=336
\* < 50,000 (2*4*6_250)".
KernelBlock == 4 * 84
FeatureBudget(num_kernels) == 2 * 4 * num_kernels
\* rounding up instead of down
NearestMultipleAbove(block, budget) == ((budget + block - 1) \div block) * block
NearestMultipleBelow(block, budget) == ((budget - 1) \div block) * block
n_features(num_kernels) ==
    NearestMultipleBelow(KernelBlock, FeatureBudget(num_kernels))

Unbound == [constructed |-> FALSE, num_kernels |-> 0, random_state |-> 0,
            fitted |-> FALSE, n_features |-> 0]

\* MultiRocketMultivariate(random_state=rs): every other parameter defaulted.
MultiRocketMultivariate(rs) ==
    [constructed |-> TRUE, num_kernels |-> DefaultNumKernels,
     random_state |-> rs, fitted |-> FALSE, n_features |-> 0]

\* fit(X): "infer data dimensions, generate random kernels"; the width of every
\* later output is decided here.
fit(self, X) ==
    [self EXCEPT !.fitted = TRUE, !.n_features = n_features(self.num_kernels)]

\* transform(X) -> array of shape (n_samples, n_features)
transform(self, X) == <<X, self.n_features>>

\* Shapes a transform that does not behave as documented might return.
ArbitraryShapes ==
    { <<r, c>> : r \in 1..MaxCases,
                 c \in {ExpectedFeatures - KernelBlock, ExpectedFeatures,
                        ExpectedFeatures + KernelBlock} }

\* The outcomes of a library call whose documented precondition is `pre`.
CallOutcomes(pre) ==
    IF lib = "documented"
    THEN (IF pre THEN {"ok"} ELSE {"raise"})
    ELSE {"ok", "raise"}

TransformResults(self, X) ==
    IF lib = "documented" THEN {transform(self, X)} ELSE ArbitraryShapes

\* accuracy_score(a, b): the fraction of positions where the two agree.
accuracy_score(a, b) ==
    [correct |-> Cardinality({i \in 1..Len(a) : a[i] = b[i]}), total |-> Len(a)]

\* accuracy == 1.0
IsOne(acc) == acc.total > 0 /\ acc.correct = acc.total

Call(fn, obj, args) == [fn |-> fn, obj |-> obj, args |-> args]

\* ------------------------------------------------------------- the test
\* test_multirocket_multivariate_on_basic_motions, one action per statement.
\* An exception leaves the test at once: pc becomes "raised" and no later
\* statement runs.

Raise(step) == pc' = "raised" /\ failedAt' = step
Goto(next) == pc' = next /\ UNCHANGED failedAt

\* line 16
LoadTraining ==
    /\ pc = "load_training"
    /\ log' = Append(log, Call("load_basic_motions", "", <<"train">>))
    /\ \E outcome \in CallOutcomes(TRUE) :
         IF outcome = "ok"
         THEN /\ X_training' = load_basic_motions("train").n
              /\ Y_training' = load_basic_motions("train").y
              /\ Goto("construct")
         ELSE /\ Raise("load_training")
              /\ UNCHANGED <<X_training, Y_training>>
    /\ UNCHANGED <<importVars, lib, dataset, X_test, Y_test, multirocket,
                   classifier, X_training_transform, X_test_transform,
                   predictions, accuracy>>

\* line 19, with a kernel budget of the caller's own
ConstructOtherBudget ==
    /\ pc = "construct"
    /\ log' = Append(log, Call("MultiRocketMultivariate", "multirocket", <<>>))
    /\ \E outcome \in CallOutcomes(TRUE) :
         IF outcome = "ok"
         THEN /\ multirocket' =
                   [MultiRocketMultivariate(0) EXCEPT !.num_kernels = 10000]
              /\ Goto("fit")
         ELSE /\ Raise("construct")
              /\ UNCHANGED multirocket
    /\ UNCHANGED <<importVars, lib, dataset, X_training, Y_training, X_test,
                   Y_test, classifier, X_training_transform, X_test_transform,
                   predictions, accuracy>>

\* line 19
Construct ==
    /\ pc = "construct"
    /\ log' = Append(log, Call("MultiRocketMultivariate", "multirocket", <<>>))
    /\ \E outcome \in CallOutcomes(TRUE) :
         IF outcome = "ok"
         THEN /\ multirocket' = MultiRocketMultivariate(0)
              /\ Goto("fit")
         ELSE /\ Raise("construct")
              /\ UNCHANGED multirocket
    /\ UNCHANGED <<importVars, lib, dataset, X_training, Y_training, X_test,
                   Y_test, classifier, X_training_transform, X_test_transform,
                   predictions, accuracy>>

\* line 20
FitTransform ==
    /\ pc = "fit"
    /\ log' = Append(log, Call("fit", "multirocket", <<"X_training">>))
    /\ \E outcome \in CallOutcomes(multirocket.constructed) :
         IF outcome = "ok"
         THEN /\ multirocket' = fit(multirocket, X_training)
              /\ Goto("transform_training")
         ELSE /\ Raise("fit")
              /\ UNCHANGED multirocket
    /\ UNCHANGED <<importVars, lib, dataset, X_training, Y_training, X_test,
                   Y_test, classifier, X_training_transform, X_test_transform,
                   predictions, accuracy>>

\* line 23
TransformTraining ==
    /\ pc = "transform_training"
    /\ log' = Append(log, Call("transform", "multirocket", <<"X_training">>))
    /\ \E outcome \in CallOutcomes(multirocket.fitted) :
         IF outcome = "ok"
         THEN /\ X_training_transform' \in TransformResults(multirocket, X_training)
              /\ Goto("assert_training_shape")
         ELSE /\ Raise("transform_training")
              /\ UNCHANGED X_training_transform
    /\ UNCHANGED <<importVars, lib, dataset, X_training, Y_training, X_test,
                   Y_test, multirocket, classifier, X_test_transform,
                   predictions, accuracy>>

\* line 27, with the failure swallowed
AssertTrainingShapeIgnored ==
    /\ pc = "assert_training_shape"
    /\ log' = Append(log, Call("assert_equal", "", <<"X_training_transform">>))
    /\ Goto("make_pipeline")
    /\ UNCHANGED <<importVars, lib, dataset, X_training, Y_training, X_test,
                   Y_test, multirocket, classifier, X_training_transform,
                   X_test_transform, predictions, accuracy>>

\* line 27: np.testing.assert_equal(shape, (len(X_training), 49_728))
AssertTrainingShape ==
    /\ pc = "assert_training_shape"
    /\ log' = Append(log, Call("assert_equal", "", <<"X_training_transform">>))
    /\ IF X_training_transform = <<X_training, ExpectedFeatures>>
       THEN Goto("make_pipeline")
       ELSE Raise("assert_training_shape")
    /\ UNCHANGED <<importVars, lib, dataset, X_training, Y_training, X_test,
                   Y_test, multirocket, classifier, X_training_transform,
                   X_test_transform, predictions, accuracy>>

\* lines 30-33
MakePipeline ==
    /\ pc = "make_pipeline"
    /\ log' = Append(log, Call("make_pipeline", "classifier", <<>>))
    /\ \E outcome \in CallOutcomes(TRUE) :
         IF outcome = "ok"
         THEN /\ classifier' = [made |-> TRUE, fitted |-> FALSE]
              /\ Goto("classifier_fit")
         ELSE /\ Raise("make_pipeline")
              /\ UNCHANGED classifier
    /\ UNCHANGED <<importVars, lib, dataset, X_training, Y_training, X_test,
                   Y_test, multirocket, X_training_transform, X_test_transform,
                   predictions, accuracy>>

\* line 34: one label per row is what the classifier's fit requires
ClassifierFit ==
    /\ pc = "classifier_fit"
    /\ log' = Append(log, Call("fit", "classifier",
                               <<"X_training_transform", "Y_training">>))
    /\ \E outcome \in CallOutcomes(/\ classifier.made
                                   /\ X_training_transform[1] = Len(Y_training)) :
         IF outcome = "ok"
         THEN /\ classifier' = [classifier EXCEPT !.fitted = TRUE]
              /\ Goto("load_test")
         ELSE /\ Raise("classifier_fit")
              /\ UNCHANGED classifier
    /\ UNCHANGED <<importVars, lib, dataset, X_training, Y_training, X_test,
                   Y_test, multirocket, X_training_transform, X_test_transform,
                   predictions, accuracy>>

\* line 37
LoadTest ==
    /\ pc = "load_test"
    /\ log' = Append(log, Call("load_basic_motions", "", <<"test">>))
    /\ \E outcome \in CallOutcomes(TRUE) :
         IF outcome = "ok"
         THEN /\ X_test' = load_basic_motions("test").n
              /\ Y_test' = load_basic_motions("test").y
              /\ Goto("transform_test")
         ELSE /\ Raise("load_test")
              /\ UNCHANGED <<X_test, Y_test>>
    /\ UNCHANGED <<importVars, lib, dataset, X_training, Y_training,
                   multirocket, classifier, X_training_transform,
                   X_test_transform, predictions, accuracy>>

\* line 40, transforming the training collection again
TransformTestOnTraining ==
    /\ pc = "transform_test"
    /\ log' = Append(log, Call("transform", "multirocket", <<"X_training">>))
    /\ \E outcome \in CallOutcomes(multirocket.fitted) :
         IF outcome = "ok"
         THEN /\ X_test_transform' \in TransformResults(multirocket, X_training)
              /\ Goto("assert_test_shape")
         ELSE /\ Raise("transform_test")
              /\ UNCHANGED X_test_transform
    /\ UNCHANGED <<importVars, lib, dataset, X_training, Y_training, X_test,
                   Y_test, multirocket, classifier, X_training_transform,
                   predictions, accuracy>>

\* line 40, as fit_transform: the transform is fitted again, on the test split
TransformTestRefit ==
    /\ pc = "transform_test"
    /\ log' = Append(Append(log, Call("fit", "multirocket", <<"X_test">>)),
                     Call("transform", "multirocket", <<"X_test">>))
    /\ \E outcome \in CallOutcomes(multirocket.constructed) :
         IF outcome = "ok"
         THEN /\ X_test_transform' \in TransformResults(fit(multirocket, X_test), X_test)
              /\ multirocket' = fit(multirocket, X_test)
              /\ Goto("assert_test_shape")
         ELSE /\ Raise("transform_test")
              /\ UNCHANGED <<X_test_transform, multirocket>>
    /\ UNCHANGED <<importVars, lib, dataset, X_training, Y_training, X_test,
                   Y_test, classifier, X_training_transform,
                   predictions, accuracy>>

\* line 40
TransformTest ==
    /\ pc = "transform_test"
    /\ log' = Append(log, Call("transform", "multirocket", <<"X_test">>))
    /\ \E outcome \in CallOutcomes(multirocket.fitted) :
         IF outcome = "ok"
         THEN /\ X_test_transform' \in TransformResults(multirocket, X_test)
              /\ Goto("assert_test_shape")
         ELSE /\ Raise("transform_test")
              /\ UNCHANGED X_test_transform
    /\ UNCHANGED <<importVars, lib, dataset, X_training, Y_training, X_test,
                   Y_test, multirocket, classifier, X_training_transform,
                   predictions, accuracy>>

\* line 44: np.testing.assert_equal(shape, (len(X_test), 49_728))
AssertTestShape ==
    /\ pc = "assert_test_shape"
    /\ log' = Append(log, Call("assert_equal", "", <<"X_test_transform">>))
    /\ IF X_test_transform = <<X_test, ExpectedFeatures>>
       THEN Goto("predict")
       ELSE Raise("assert_test_shape")
    /\ UNCHANGED <<importVars, lib, dataset, X_training, Y_training, X_test,
                   Y_test, multirocket, classifier, X_training_transform,
                   X_test_transform, predictions, accuracy>>

\* line 47: one predicted label per row; which label is the classifier's
\* numerical result, left open here
Predict ==
    /\ pc = "predict"
    /\ log' = Append(log, Call("predict", "classifier", <<"X_test_transform">>))
    /\ \E outcome \in CallOutcomes(classifier.fitted) :
         IF outcome = "ok"
         THEN /\ predictions' \in [1..X_test_transform[1] -> Classes]
              /\ Goto("accuracy_score")
         ELSE /\ Raise("predict")
              /\ UNCHANGED predictions
    /\ UNCHANGED <<importVars, lib, dataset, X_training, Y_training, X_test,
                   Y_test, multirocket, classifier, X_training_transform,
                   X_test_transform, accuracy>>

\* line 48
AccuracyScore ==
    /\ pc = "accuracy_score"
    /\ log' = Append(log, Call("accuracy_score", "", <<"predictions", "Y_test">>))
    /\ \E outcome \in CallOutcomes(Len(predictions) = Len(Y_test)) :
         IF outcome = "ok"
         THEN /\ accuracy' = accuracy_score(predictions, Y_test)
              /\ Goto("assert_accuracy")
         ELSE /\ Raise("accuracy_score")
              /\ UNCHANGED accuracy
    /\ UNCHANGED <<importVars, lib, dataset, X_training, Y_training, X_test,
                   Y_test, multirocket, classifier, X_training_transform,
                   X_test_transform, predictions>>

\* line 51: assert accuracy == 1.0
AssertAccuracy ==
    /\ pc = "assert_accuracy"
    /\ log' = Append(log, Call("assert", "", <<"accuracy">>))
    /\ IF IsOne(accuracy) THEN Goto("passed") ELSE Raise("assert_accuracy")
    /\ UNCHANGED <<importVars, lib, dataset, X_training, Y_training, X_test,
                   Y_test, multirocket, classifier, X_training_transform,
                   X_test_transform, predictions, accuracy>>

\* ------------------------------------------------------- specifications

\* The package before its import starts.
ImportStart ==
    /\ ipc = "docstring"
    /\ namespace = {}
    /\ __all__ = <<>>

\* The test before its first statement.
TestStart ==
    /\ pc = "load_training"
    /\ failedAt = ""
    /\ log = <<>>
    /\ X_training = 0 /\ Y_training = <<>>
    /\ X_test = 0 /\ Y_test = <<>>
    /\ multirocket = Unbound
    /\ classifier = [made |-> FALSE, fitted |-> FALSE]
    /\ X_training_transform = <<>> /\ X_test_transform = <<>>
    /\ predictions = <<>>
    /\ accuracy = [correct |-> 0, total |-> 0]

TestStep ==
    \/ LoadTraining
    \/ Construct
    \/ FitTransform
    \/ TransformTraining
    \/ AssertTrainingShape
    \/ MakePipeline
    \/ ClassifierFit
    \/ LoadTest
    \/ TransformTest
    \/ AssertTestShape
    \/ Predict
    \/ AccuracyScore
    \/ AssertAccuracy

\* The test against libraries that behave as documented, on any dataset.
Init ==
    /\ ImportStart
    /\ submodules = [m \in {OnlineEnsembleModule, WeightedEnsemblerModule} |->
                        SubmoduleDefines(m)]
    /\ lib = "documented"
    /\ dataset \in [{"train", "test"} -> Splits]
    /\ TestStart

Next == TestStep

Spec == Init /\ [][Next]_vars

\* The test against libraries of which nothing is assumed.
InitLib ==
    /\ ImportStart
    /\ submodules = [m \in {OnlineEnsembleModule, WeightedEnsemblerModule} |->
                        SubmoduleDefines(m)]
    /\ lib \in {"documented", "arbitrary"}
    /\ dataset \in [{"train", "test"} -> Splits]
    /\ TestStart

SpecLib == InitLib /\ [][Next]_vars

\* The import of the package, whatever else its submodules define.
InitImport ==
    /\ ImportStart
    /\ submodules \in
         { [m \in {OnlineEnsembleModule, WeightedEnsemblerModule} |->
                SubmoduleDefines(m) \cup extra[m]] :
           extra \in [{OnlineEnsembleModule, WeightedEnsemblerModule} ->
                        SUBSET ExtraNames] }
    /\ lib = "documented"
    /\ dataset = [s \in {"train", "test"} |-> [n |-> 1, y |-> <<"standing">>]]
    /\ TestStart

NextImport ==
    \/ Docstring
    \/ AssignAuthor
    \/ AssignAll
    \/ ImportOnlineEnsemble
    \/ ImportWeightedEnsemblers

SpecImport == InitImport /\ [][NextImport]_vars

\* ---------------------------------------------------------------- claims

PublicNames == {"NormalHedgeEnsemble", "NNLSEnsemble", "OnlineEnsembleForecaster"}

\* C1: the import of the package always completes, and when it has, __all__
\* lists exactly the three public names, each name of __all__ is bound by a
\* from-import of the initializer, the from-imports bind no other name, and
\* OnlineEnsembleForecaster comes from _online_ensemble while NNLSEnsemble and
\* NormalHedgeEnsemble come from _prediction_weighted_ensembler.
C1_ExportSurface ==
    /\ ipc # "ImportError"
    /\ Imported \subseteq PublicNames
    /\ ipc = "imported" =>
         /\ Len(__all__) = 3
         /\ Range(__all__) = PublicNames
         /\ Range(__all__) \subseteq Imported
         /\ Imported \subseteq Range(__all__)
         /\ SourceOf("OnlineEnsembleForecaster") = {"_online_ensemble"}
         /\ SourceOf("NNLSEnsemble") = {"_prediction_weighted_ensembler"}
         /\ SourceOf("NormalHedgeEnsemble") = {"_prediction_weighted_ensembler"}

\* The import has completed against submodules that define more than the
\* exported classes.
C1_Witness ==
    /\ ipc = "imported"
    /\ "HedgeExpertEnsemble" \in submodules[WeightedEnsemblerModule]
    /\ "EnsembleForecaster" \in submodules[OnlineEnsembleModule]

\* C2: once the transform constructed with random_state=0 has been fitted on
\* the training split and applied to it, the result has shape
\* (n_train, 49728), n_train the number of training cases.
C2_TrainingShape ==
    X_training_transform # <<>> =>
        /\ multirocket.random_state = 0
        /\ multirocket.fitted
        /\ X_training = dataset["train"].n
        /\ X_training_transform = <<dataset["train"].n, 49728>>

\* The training split, of more than one case, has been transformed.
C2_Witness ==
    /\ pc = "assert_training_shape"
    /\ X_training_transform # <<>>
    /\ X_training > 1

\* C3: the transform fitted on the training split, applied to the test split,
\* returns one row per test case and as many columns as for the training
\* split, 49728: the width is the one fixed by fit, whichever collection and
\* however many cases are transformed.
C3_TestShape ==
    X_test_transform # <<>> =>
        /\ X_test = dataset["test"].n
        /\ X_test_transform = <<dataset["test"].n, 49728>>
        /\ X_test_transform[2] = X_training_transform[2]
        /\ X_test_transform[2] = multirocket.n_features

\* The test split has been transformed and holds another number of cases
\* than the training split.
C3_Witness ==
    /\ pc = "assert_test_shape"
    /\ X_test_transform # <<>>
    /\ X_test # X_training

\* The widths of the transformed matrices produced so far.
Widths == {s[2] : s \in {X_training_transform, X_test_transform} \ {<<>>}}

\* C6: the budget is 50000 = 2*4*6250, the block 4*84 = 336, and every
\* transformed matrix is 49728 wide: a multiple of 336 below 50000 whose next
\* multiple is not below 50000; the width is the one the kernel budget gives,
\* the same for every collection.
C6_FeatureCount ==
    /\ FeatureBudget(DefaultNumKernels) = 50000
    /\ KernelBlock = 336
    /\ ExpectedFeatures = 49728
    /\ \A w \in Widths :
         /\ w = ExpectedFeatures
         /\ w = n_features(multirocket.num_kernels)
         /\ w % 336 = 0
         /\ w < 50000
         /\ w + 336 >= 50000
         /\ \A k \in 0..200 : k * 336 < 50000 => k * 336 <= w

\* Both splits have been transformed, and they differ in their number of cases.
C6_Witness ==
    /\ Cardinality(Widths) = 1
    /\ X_training_transform # <<>>
    /\ X_test_transform # <<>>
    /\ X_training_transform[1] # X_test_transform[1]

\* The positions in the log of the calls of `fn` on `obj`.
Calls(fn, obj) == {i \in 1..Len(log) : log[i].fn = fn /\ log[i].obj = obj}

\* The positions in the log of the calls that are given `arg`.
CallsWith(arg) == {i \in 1..Len(log) : arg \in Range(log[i].args)}

\* The statements of the test, in order.
Statements ==
    <<"load_training", "construct", "fit", "transform_training",
      "assert_training_shape", "make_pipeline", "classifier_fit", "load_test",
      "transform_test", "assert_test_shape", "predict", "accuracy_score",
      "assert_accuracy">>

StatementIndex(step) == CHOOSE i \in 1..Len(Statements) : Statements[i] = step

\* The calls of a test run that passes, in order.
PassingCalls ==
    <<"load_basic_motions", "MultiRocketMultivariate", "fit", "transform",
      "assert_equal", "make_pipeline", "fit", "load_basic_motions",
      "transform", "assert_equal", "predict", "accuracy_score", "assert">>

\* C7: the transform is constructed at most once and fitted at most once, on
\* the training split only, before every transform call; the classifier is
\* fitted at most once, on the transformed training features and the training
\* labels only, before predict; the test split is only ever given to the
\* transform of that one fitted instance; the test labels are only ever given
\* to accuracy_score; and a test that passes has made exactly the calls of the
\* test, each once, in their order.
C7_CallOrder ==
    /\ Cardinality(Calls("MultiRocketMultivariate", "multirocket")) <= 1
    /\ Cardinality(Calls("fit", "multirocket")) <= 1
    /\ \A i \in Calls("fit", "multirocket") : log[i].args = <<"X_training">>
    /\ \A i \in Calls("transform", "multirocket") :
         \E j \in Calls("fit", "multirocket") : j < i
    /\ Cardinality(Calls("fit", "classifier")) <= 1
    /\ \A i \in Calls("fit", "classifier") :
         log[i].args = <<"X_training_transform", "Y_training">>
    /\ \A i \in Calls("predict", "classifier") :
         \E j \in Calls("fit", "classifier") : j < i
    /\ \A i \in CallsWith("X_test") :
         /\ log[i].fn = "transform"
         /\ log[i].obj = "multirocket"
    /\ \A i \in CallsWith("Y_test") : log[i].fn = "accuracy_score"
    /\ pc = "passed" =>
         /\ Len(log) = Len(PassingCalls)
         /\ \A i \in 1..Len(log) : log[i].fn = PassingCalls[i]

\* The test has passed on splits of different sizes.
C7_Witness ==
    /\ pc = "passed"
    /\ X_test # X_training

\* C8: a statement that raises ends the test there: the failing call is the
\* last one made.  A transformed training shape other than (n_train, 49728) is
\* stopped by the first assertion, so the classifier is never fitted; when the
\* classifier's fit raises, no test data is loaded or transformed; a
\* transformed test shape other than (n_test, 49728) is stopped by the second
\* assertion, so nothing is predicted or scored; and the test passes only with
\* both shapes as expected and an accuracy of 1.0.
C8_FailurePropagates ==
    /\ (pc = "raised") = (failedAt # "")
    /\ pc = "raised" => Len(log) = StatementIndex(failedAt)
    /\ (X_training_transform # <<>> /\ X_training_transform # <<X_training, 49728>>) =>
         /\ pc \in {"assert_training_shape", "raised"}
         /\ pc = "raised" => failedAt = "assert_training_shape"
         /\ Calls("fit", "classifier") = {}
    /\ failedAt = "classifier_fit" =>
         /\ Calls("load_basic_motions", "") = {1}
         /\ CallsWith("X_test") = {}
         /\ X_test = 0 /\ X_test_transform = <<>>
    /\ (X_test_transform # <<>> /\ X_test_transform # <<X_test, 49728>>) =>
         /\ pc \in {"assert_test_shape", "raised"}
         /\ pc = "raised" => failedAt = "assert_test_shape"
         /\ Calls("predict", "classifier") = {}
         /\ Calls("accuracy_score", "") = {}
    /\ pc = "passed" =>
         /\ X_training_transform = <<X_training, 49728>>
         /\ X_test_transform = <<X_test, 49728>>
         /\ IsOne(accuracy)
         /\ \A i \in 1..Len(Y_test) : predictions[i] = Y_test[i]

\* The first shape assertion has raised on a transformed training matrix of
\* the wrong shape.
C8_Witness ==
    /\ pc = "raised"
    /\ failedAt = "assert_training_shape"
    /\ X_training_transform # <<X_training, 49728>>

====
